---- MODULE Spec2Model ----
(***************************************************************************)
(* yabc: the `posts create` command and the bluesky post submitter.        *)
(* Strings are sequences of one-character strings, so that slicing,        *)
(* concatenation, lower-casing and extension lookup are computed as the    *)
(* Go code computes them.                                                  *)
(***************************************************************************)
EXTENDS Integers, Sequences, FiniteSets, TLC

VARIABLES pc, text, hashtags, imageFile, file, content, token, now, createdAt,
          imgLen, blobResp, dims, wire, out, err, exitCode

vars == <<pc, text, hashtags, imageFile, file, content, token, now, createdAt,
          imgLen, blobResp, dims, wire, out, err, exitCode>>

(***************************************************************************)
(* Bounds of the model                                                     *)
(***************************************************************************)
MaxTags == 2
MaxDim == 1

(***************************************************************************)
(* Characters and strings                                                  *)
(***************************************************************************)
Digits == <<"0", "1", "2", "3", "4", "5", "6", "7", "8", "9">>
Upper == <<"A", "B", "C", "D", "E", "F", "G", "H", "I", "J", "K", "L", "M",
           "N", "O", "P", "Q", "R", "S", "T", "U", "V", "W", "X", "Y", "Z">>
Lower == <<"a", "b", "c", "d", "e", "f", "g", "h", "i", "j", "k", "l", "m",
           "n", "o", "p", "q", "r", "s", "t", "u", "v", "w", "x", "y", "z">>

IsDigit(c) == \E i \in 1..10 : Digits[i] = c

DigitVal(c) == (CHOOSE i \in 1..10 : Digits[i] = c) - 1

\* strings.ToLower, one character
ToLowerChar(c) ==
    IF \E i \in 1..26 : Upper[i] = c
    THEN Lower[CHOOSE i \in 1..26 : Upper[i] = c]
    ELSE c

\* strings.ToLower
ToLower(s) == [i \in 1..Len(s) |-> ToLowerChar(s[i])]

\* strings.HasSuffix
HasSuffix(s, suf) ==
    /\ Len(suf) <= Len(s)
    /\ SubSeq(s, Len(s) - Len(suf) + 1, Len(s)) = suf

RECURSIVE Pow10(_)
Pow10(k) == IF k = 0 THEN 1 ELSE 10 * Pow10(k - 1)

\* n written with exactly w decimal digits, zero padded (n < 10^w)
RECURSIVE Pad(_, _)
Pad(n, w) == IF w = 0 THEN << >> ELSE Pad(n \div 10, w - 1) \o <<Digits[(n % 10) + 1]>>

\* value of a string of decimal digits
RECURSIVE DecVal(_)
DecVal(s) == IF s = << >> THEN 0
             ELSE 10 * DecVal(SubSeq(s, 1, Len(s) - 1)) + DigitVal(s[Len(s)])

(***************************************************************************)
(* getCurrentTime                                                          *)
(***************************************************************************)
NoTime == [year |-> 0, month |-> 0, day |-> 0, hour |-> 0, min |-> 0, sec |-> 0, nsec |-> 0]

PANIC == <<"!", "p", "a", "n", "i", "c">>

\* layout element .999999999: nine fractional digits, trailing zeros removed,
\* and the decimal point itself removed when nothing is left
RECURSIVE StripZeros(_)
StripZeros(s) == IF s # << >> /\ s[Len(s)] = "0"
                 THEN StripZeros(SubSeq(s, 1, Len(s) - 1))
                 ELSE s

FracNano(nsec) ==
    LET d == StripZeros(Pad(nsec, 9))
    IN  IF d = << >> THEN << >> ELSE <<".">> \o d

\* t.UTC().Format(time.RFC3339Nano), layout 2006-01-02T15:04:05.999999999Z07:00
FormatRFC3339Nano(t) ==
    Pad(t.year, 4) \o <<"-">> \o Pad(t.month, 2) \o <<"-">> \o Pad(t.day, 2)
      \o <<"T">> \o Pad(t.hour, 2) \o <<":">> \o Pad(t.min, 2) \o <<":">> \o Pad(t.sec, 2)
      \o FracNano(t.nsec) \o <<"Z">>

\* s[:23] + "Z"; the slice expression panics when len(s) < 23
getCurrentTime(t) ==
    LET s == FormatRFC3339Nano(t)
    IN  IF Len(s) < 23 THEN PANIC ELSE SubSeq(s, 1, 23) \o <<"Z">>

(***************************************************************************)
(* Content composition, hashtag input, file extension and MIME type        *)
(***************************************************************************)
\* variant: the separating space is left out
RECURSIVE ComposeNoSpace(_, _)
ComposeNoSpace(c, tags) ==
    IF tags = << >> THEN c
    ELSE ComposeNoSpace(c \o <<"#">> \o Head(tags), Tail(tags))

ComposeContentNoSpace(t, tags) == ComposeNoSpace(t, tags)

\* content := text; for _, tag := range hashtags { content += " #" + tag }
RECURSIVE ComposeFrom(_, _)
ComposeFrom(c, tags) ==
    IF tags = << >> THEN c
    ELSE ComposeFrom(c \o <<" ", "#">> \o Head(tags), Tail(tags))

ComposeContent(t, tags) == ComposeFrom(t, tags)

\* strings.TrimSpace
RECURSIVE TrimSpace(_)
TrimSpace(s) ==
    IF s = << >> THEN s
    ELSE IF Head(s) = " " THEN TrimSpace(Tail(s))
    ELSE IF s[Len(s)] = " " THEN TrimSpace(SubSeq(s, 1, Len(s) - 1))
    ELSE s

\* strings.Split(s, ","): always at least one element
RECURSIVE SplitComma(_)
SplitComma(s) ==
    IF \E i \in 1..Len(s) : s[i] = ","
    THEN LET i == CHOOSE j \in 1..Len(s) : s[j] = "," /\ \A k \in 1..(j - 1) : s[k] # ","
         IN  <<SubSeq(s, 1, i - 1)>> \o SplitComma(SubSeq(s, i + 1, Len(s)))
    ELSE <<s>>

\* the hashtag field of the form: split on commas, each piece trimmed;
\* an empty input leaves the hashtags variable as it was
ProcessHashtags(input, old) ==
    IF input # << >>
    THEN LET parts == SplitComma(input)
         IN  [i \in 1..Len(parts) |-> TrimSpace(parts[i])]
    ELSE old

\* filepath.Ext: the suffix starting at the last dot of the last path element
RECURSIVE ExtFrom(_, _)
ExtFrom(path, i) ==
    IF i < 1 \/ path[i] = "/" THEN << >>
    ELSE IF path[i] = "." THEN SubSeq(path, i, Len(path))
    ELSE ExtFrom(path, i - 1)

Ext(path) == ExtFrom(path, Len(path))

\* variant: the extension is compared without lower-casing it
getMimeTypeCaseSensitive(filename) ==
    LET ext == Ext(filename)
    IN  IF ext \in {<<".", "j", "p", "g">>, <<".", "j", "p", "e", "g">>} THEN "image/jpeg"
        ELSE IF ext = <<".", "p", "n", "g">> THEN "image/png"
        ELSE IF ext = <<".", "g", "i", "f">> THEN "image/gif"
        ELSE IF ext = <<".", "w", "e", "b", "p">> THEN "image/webp"
        ELSE ""

getMimeType(filename) ==
    LET ext == ToLower(Ext(filename))
    IN  IF ext \in {<<".", "j", "p", "g">>, <<".", "j", "p", "e", "g">>} THEN "image/jpeg"
        ELSE IF ext = <<".", "p", "n", "g">> THEN "image/png"
        ELSE IF ext = <<".", "g", "i", "f">> THEN "image/gif"
        ELSE IF ext = <<".", "w", "e", "b", "p">> THEN "image/webp"
        ELSE ""

\* uploadImage: the Content-Type header of the upload request
UploadContentType(path) ==
    IF getMimeType(path) = "" THEN "image/jpeg" ELSE getMimeType(path)

\* uploadImage: len(imgData) > 1000000
MaxImageBytes == 1000000

\* variant: the limit itself is rejected too
TooLargeInclusive(n) == n >= MaxImageBytes

TooLarge(n) == n > MaxImageBytes

(***************************************************************************)
(* Inputs: command-line flags, form answers, files, clock, server replies   *)
(***************************************************************************)
Empty == << >>

Texts == {Empty, <<"H", "e", "l", "l", "o">>, <<"H", "i", " ", "#", "x">>}

Tags == {<<"a">>, <<"b">>}

RECURSIVE SeqsUpTo(_, _)
SeqsUpTo(S, n) ==
    IF n = 0 THEN {<< >>}
    ELSE LET shorter == SeqsUpTo(S, n - 1)
         IN  shorter \cup {Append(q, x) : q \in shorter, x \in S}

HashtagLists == SeqsUpTo(Tags, MaxTags)

HashtagInputs == {Empty, <<"a">>, <<"a", ",", " ", "b">>, <<" ", "g", "o", ",">>}

ImagePaths == {<<"a", ".", "p", "n", "g">>,
               <<"b", ".", "J", "P", "G">>,
               <<"c", ".", "j", "p", "e", "g">>,
               <<"d", ".", "G", "i", "f">>,
               <<"e", ".", "w", "e", "b", "p">>,
               <<"f", ".", "b", "m", "p">>,
               <<"n", "o", "e", "x", "t">>,
               <<"v", ".", "p", "n", "g", "/", "r", "a", "w">>}

\* the file picker of the form: AllowedTypes .jpg .jpeg .png .gif
AllowedTypes == {<<".", "j", "p", "g">>, <<".", "j", "p", "e", "g">>,
                 <<".", "p", "n", "g">>, <<".", "g", "i", "f">>}

Pickable == {p \in ImagePaths : \E t \in AllowedTypes : HasSuffix(p, t)}

FileSizes == {0, MaxImageBytes - 1, MaxImageBytes, MaxImageBytes + 1, 2 * MaxImageBytes}

\* what is at the image path: os.Stat result, whether os.ReadFile succeeds, byte count
NoFile == [stat |-> "notexist", readable |-> FALSE, size |-> 0]

Files == {NoFile, [stat |-> "denied", readable |-> FALSE, size |-> 0],
          [stat |-> "ok", readable |-> FALSE, size |-> 2 * MaxImageBytes]}
           \cup [stat : {"ok"}, readable : {TRUE}, size : FileSizes]

FilesAt(path) == IF path = Empty THEN {NoFile} ELSE Files

\* sub-second fields covering every number of significant fractional digits
Nsecs == {0, 123456789, 120000000, 123000000, 999999999, 1000001, 999000000}
           \cup {d * Pow10(k) : d \in {1, 7}, k \in 0..8}

Instants == [year : {2025}, month : {1, 12}, day : {9, 31}, hour : {0, 23},
             min : {5}, sec : {0, 59}, nsec : Nsecs]

\* the instants the command is run at: one for each shape of the fraction
RunInstants == {t \in Instants : /\ t.month = 12 /\ t.day = 31 /\ t.hour = 23 /\ t.sec = 59
                                 /\ t.nsec \in {0, 100000000, 120000000, 123000000, 123456789}}

Widths == 0..MaxDim

\* image formats; the command registers the gif, jpeg and png decoders
Formats == {"gif", "jpeg", "png", "webp", "none"}
Registered == {"gif", "jpeg", "png"}

(***************************************************************************)
(* State                                                                   *)
(***************************************************************************)
NoToken == [did |-> "", accessJwt |-> ""]
NoBlob == [link |-> "", mimeType |-> "", size |-> 0]
NoDims == [width |-> 0, height |-> 0, failed |-> FALSE, read |-> FALSE]
NoEmbed == [present |-> FALSE, link |-> "", mimeType |-> "", size |-> 0,
            aspect |-> FALSE, width |-> 0, height |-> 0]
NoRecord == [text |-> Empty, createdAt |-> Empty, embed |-> NoEmbed]
Running == -1

\* one wire call: the request sent and the reply it got
Request(kind, reply, ctype, blob, record) ==
    [kind |-> kind, reply |-> reply, contentType |-> ctype, blob |-> blob, record |-> record]

Init ==
    /\ pc = "parse"
    /\ text = Empty
    /\ hashtags = << >>
    /\ imageFile = Empty
    /\ file = NoFile
    /\ content = Empty
    /\ token = NoToken
    /\ now = NoTime
    /\ createdAt = Empty
    /\ imgLen = -1
    /\ blobResp = NoBlob
    /\ dims = NoDims
    /\ wire = << >>
    /\ out = << >>
    /\ err = "none"
    /\ exitCode = Running

(***************************************************************************)
(* The command: Execute, the Run function of `posts create`                *)
(***************************************************************************)
\* os.Exit(code), a panic, or the return of main
Exit(code, e) ==
    /\ exitCode' = code
    /\ err' = e
    /\ pc' = "exited"

\* variant: a failed upload is reported but the post is sent all the same
ReportCreateFailureContinue(e, printed) ==
    /\ out' = printed \o <<"Error: Failed to create post">>
    /\ err' = e
    /\ exitCode' = IF pc = "upload" THEN Running ELSE 0
    /\ pc' = IF pc = "upload" THEN "send" ELSE "exited"

\* Run: err != nil after CreatePost: log, "Error: Failed to create post", return
ReportCreateFailure(e, printed) ==
    /\ out' = printed \o <<"Error: Failed to create post">>
    /\ Exit(0, e)

\* Execute: rootCmd.Execute() parses the command line; an error exits with 1
ParseFlags ==
    /\ pc = "parse"
    /\ \/ /\ Exit(1, "parse")
          /\ UNCHANGED <<text, hashtags, imageFile, file>>
       \/ \E t \in Texts, h \in HashtagLists, i \in {Empty} \cup ImagePaths :
             /\ text' = t
             /\ hashtags' = h
             /\ imageFile' = i
             /\ file' \in FilesAt(i)
             /\ pc' = "run"
             /\ UNCHANGED <<err, exitCode>>
    /\ UNCHANGED <<content, token, now, createdAt, imgLen, blobResp, dims, wire, out>>

\* Run, up to the call of GetToken, when a flag gave text or an image
RunWithFlags ==
    /\ pc = "run"
    /\ ~(text = Empty /\ imageFile = Empty)
    /\ content' = ComposeContent(text, hashtags)
    /\ pc' = "auth"
    /\ UNCHANGED <<text, hashtags, imageFile, file, token, now, createdAt, imgLen,
                   blobResp, dims, wire, out, err, exitCode>>

\* Run, up to the call of GetToken, when text and image are both empty:
\* the form is shown; its failure exits with 1, its answers are taken as given
RunWithForm ==
    /\ pc = "run"
    /\ text = Empty /\ imageFile = Empty
    /\ \/ /\ Exit(1, "input")
          /\ UNCHANGED <<text, hashtags, imageFile, file, content>>
       \/ \E t \in Texts, hin \in HashtagInputs, i \in {Empty} \cup Pickable :
             /\ text' = t
             /\ hashtags' = ProcessHashtags(hin, hashtags)
             /\ imageFile' = i
             /\ file' \in FilesAt(i)
             /\ content' = ComposeContent(t, ProcessHashtags(hin, hashtags))
             /\ pc' = "auth"
             /\ UNCHANGED <<err, exitCode>>
    /\ UNCHANGED <<token, now, createdAt, imgLen, blobResp, dims, wire, out>>

\* bluesky.GetToken and the error branch of Run that follows it
SessionReplies == {"ok", "status", "malformed", "transport"}

GetToken ==
    /\ pc = "auth"
    /\ \E reply \in SessionReplies :
          /\ wire' = Append(wire, Request("createSession", reply, "application/json", NoBlob, NoRecord))
          /\ IF reply = "ok"
             THEN /\ token' = [did |-> "did:plc:u", accessJwt |-> "jwt"]
                  /\ pc' = "createPost"
                  /\ UNCHANGED <<out, err, exitCode>>
             ELSE /\ out' = Append(out, "Error: Failed to authenticate with Bluesky")
                  /\ Exit(0, "auth")
                  /\ UNCHANGED token
    /\ UNCHANGED <<text, hashtags, imageFile, file, content, now, createdAt, imgLen, blobResp, dims>>

(***************************************************************************)
(* bluesky.CreatePost                                                      *)
(***************************************************************************)
\* CreatePost: the record is prepared, createdAt taken from the clock
CreatePostBegin ==
    /\ pc = "createPost"
    /\ \E t \in RunInstants :
          /\ now' = t
          /\ createdAt' = getCurrentTime(t)
          /\ IF getCurrentTime(t) = PANIC
             THEN /\ Exit(2, "panic")
                  /\ out' = out
             ELSE IF imageFile # Empty
             THEN /\ out' = Append(out, "Uploading image")
                  /\ pc' = "upload"
                  /\ UNCHANGED <<err, exitCode>>
             ELSE /\ pc' = "send"
                  /\ UNCHANGED <<out, err, exitCode>>
    /\ UNCHANGED <<text, hashtags, imageFile, file, content, token, imgLen, blobResp, dims, wire>>

\* replies of the upload endpoint: missing JSON fields decode to zero values
UploadReplies(ctype, n) ==
    [kind : {"transport", "bodyread", "status", "undecodable"}, blob : {NoBlob}]
      \cup [kind : {"decoded"},
            blob : [link : {"", "bafy"}, mimeType : {"", ctype}, size : {0, n}]]

\* variant: the status code of the reply is not looked at
UploadErrorIgnoresStatus(reply) ==
    IF reply.kind \notin {"decoded", "status"} THEN reply.kind
    ELSE IF reply.kind = "decoded" /\ reply.blob.link = "" THEN "nolink"
    ELSE "none"

\* variant: a decoded reply is accepted without looking at its reference link
UploadErrorAcceptsNoLink(reply) ==
    IF reply.kind # "decoded" THEN reply.kind ELSE "none"

\* uploadImage: the error it returns for a reply, "none" when it returns the blob
UploadError(reply) ==
    IF reply.kind # "decoded" THEN reply.kind
    ELSE IF reply.blob.link = "" THEN "nolink"
    ELSE "none"

uploadImage ==
    /\ pc = "upload"
    /\ IF file.stat # "ok"
       THEN /\ ReportCreateFailure(file.stat, out)
            /\ UNCHANGED <<imgLen, blobResp, wire>>
       ELSE IF ~file.readable
       THEN /\ ReportCreateFailure("read", out)
            /\ UNCHANGED <<imgLen, blobResp, wire>>
       ELSE IF TooLarge(file.size)
       THEN /\ imgLen' = file.size
            /\ ReportCreateFailure("size", out)
            /\ UNCHANGED <<blobResp, wire>>
       ELSE \E reply \in UploadReplies(UploadContentType(imageFile), file.size) :
            /\ imgLen' = file.size
            /\ wire' = Append(wire, Request("uploadBlob", reply.kind,
                                             UploadContentType(imageFile), reply.blob, NoRecord))
            /\ IF UploadError(reply) = "none"
               THEN /\ blobResp' = reply.blob
                    /\ pc' = "dims"
                    /\ UNCHANGED <<out, err, exitCode>>
               ELSE /\ ReportCreateFailure(UploadError(reply), out)
                    /\ UNCHANGED blobResp
    /\ UNCHANGED <<text, hashtags, imageFile, file, content, token, now, createdAt, dims>>

\* getImageDimensions and the warning of CreatePost
WarnDims == "Warning: Could not determine image dimensions, aspect ratio won't be specified"

getImageDimensions ==
    /\ pc = "dims"
    /\ \E openOk \in BOOLEAN, format \in Formats, w \in Widths, h \in Widths :
          IF openOk /\ format \in Registered
          THEN /\ dims' = [width |-> w, height |-> h, failed |-> FALSE, read |-> TRUE]
               /\ out' = out
          ELSE /\ dims' = [width |-> 0, height |-> 0, failed |-> TRUE, read |-> TRUE]
               /\ out' = Append(out, WarnDims)
    /\ pc' = "send"
    /\ UNCHANGED <<text, hashtags, imageFile, file, content, token, now, createdAt,
                   imgLen, blobResp, wire, err, exitCode>>

\* variant: one positive dimension is enough
HasAspectEither(d) == d.width > 0 \/ d.height > 0

\* CreatePost: aspectRatio is added if width > 0 && height > 0
HasAspect(d) == d.width > 0 /\ d.height > 0

\* CreatePost: the image embed
ImageEmbed(blob, d) ==
    [present |-> TRUE, link |-> blob.link, mimeType |-> blob.mimeType, size |-> blob.size,
     aspect |-> HasAspect(d),
     width |-> IF HasAspect(d) THEN d.width ELSE 0,
     height |-> IF HasAspect(d) THEN d.height ELSE 0]

\* CreatePost: the record of the request body
BuildRecord ==
    [text |-> content, createdAt |-> createdAt,
     embed |-> IF imageFile # Empty THEN ImageEmbed(blobResp, dims) ELSE NoEmbed]

\* variant: only a transport error is an error
CreateErrorIgnoresStatus(reply) == IF reply = "transport" THEN reply ELSE "none"

\* CreatePost: the error it returns for the reply of createRecord
CreateError(reply) == IF reply = "ok" THEN "none" ELSE reply

\* CreatePost from the request on, and the lines of Run that follow it
SendCreateRecord ==
    /\ pc = "send"
    /\ \E reply \in {"ok", "status", "transport"} :
          /\ wire' = Append(wire, Request("createRecord", reply, "application/json", NoBlob, BuildRecord))
          /\ IF CreateError(reply) = "none"
             THEN /\ out' = Append(out, "Post created successfully!")
                  /\ Exit(0, "none")
             ELSE ReportCreateFailure(CreateError(reply), out)
    /\ UNCHANGED <<text, hashtags, imageFile, file, content, token, now, createdAt,
                   imgLen, blobResp, dims>>

Next ==
    \/ ParseFlags
    \/ RunWithFlags
    \/ RunWithForm
    \/ GetToken
    \/ CreatePostBegin
    \/ uploadImage
    \/ getImageDimensions
    \/ SendCreateRecord

Spec == Init /\ [][Next]_vars

(***************************************************************************)
(* The clock read on its own: getCurrentTime at every instant of Instants  *)
(***************************************************************************)
InitTime ==
    /\ pc = "clock"
    /\ text = Empty
    /\ hashtags = << >>
    /\ imageFile = Empty
    /\ file = NoFile
    /\ content = Empty
    /\ token = NoToken
    /\ now = NoTime
    /\ createdAt = Empty
    /\ imgLen = -1
    /\ blobResp = NoBlob
    /\ dims = NoDims
    /\ wire = << >>
    /\ out = << >>
    /\ err = "none"
    /\ exitCode = Running

ReadClock ==
    /\ pc = "clock"
    /\ \E t \in Instants :
          /\ now' = t
          /\ createdAt' = getCurrentTime(t)
    /\ UNCHANGED <<pc, text, hashtags, imageFile, file, content, token,
                   imgLen, blobResp, dims, wire, out, err, exitCode>>

NextTime == ReadClock

SpecTime == InitTime /\ [][NextTime]_vars

TypeOK ==
    /\ pc \in {"parse", "run", "auth", "createPost", "upload", "dims", "send", "exited"}
    /\ exitCode \in {Running, 0, 1, 2}
    /\ (pc = "exited") <=> (exitCode # Running)

(***************************************************************************)
(* Properties                                                              *)
(***************************************************************************)
Calls(kind) == {i \in 1..Len(wire) : wire[i].kind = kind}

Printed(line) == \E i \in 1..Len(out) : out[i] = line

SuccessLine == "Post created successfully!"
FailureLine == "Error: Failed to create post"

\* a wire call got the reply its caller needs to go on
Succeeded(r) ==
    IF r.kind = "uploadBlob" THEN r.reply = "decoded" /\ r.blob.link # ""
    ELSE r.reply = "ok"

\* C1: a run whose text and image path are both empty once flags are parsed
\* and the form is answered makes no network call at all.
C1_EmptyPostMakesNoCall ==
    (pc \notin {"parse", "run"} /\ text = Empty /\ imageFile = Empty) => wire = << >>

\* C2 as stated: when a file of more than 1,000,000 bytes is rejected the run
\* reports an error and no request at all has been sent, and a file of exactly
\* 1,000,000 bytes is not rejected for size.
C2_OversizeRejectedBeforeAnyCall ==
    /\ TooLarge(imgLen) => (err = "size" /\ Printed(FailureLine) /\ wire = << >>)
    /\ imgLen = MaxImageBytes => err # "size"

\* C2 amended: a run whose image file has more than 1,000,000 bytes never sends
\* upload-blob or create-record and never prints success; once CreatePost has
\* reached the upload of a readable oversized file the run ends with the size
\* error reported and the successful create-session as the only request; a
\* file of exactly 1,000,000 bytes is not rejected for size and is uploaded.
C2_OversizeRejectedBeforeUpload ==
    /\ (imageFile # Empty /\ file.stat = "ok" /\ file.size > 1000000) =>
          /\ Calls("uploadBlob") = {}
          /\ Calls("createRecord") = {}
          /\ ~Printed(SuccessLine)
          /\ (file.readable /\ pc = "exited" /\ Printed("Uploading image")) =>
                /\ err = "size"
                /\ exitCode = 0
                /\ out[Len(out)] = FailureLine
                /\ Len(wire) = 1 /\ wire[1].kind = "createSession" /\ wire[1].reply = "ok"
    /\ imgLen = 1000000 => (err # "size" /\ Calls("uploadBlob") # {})

C2_Witness ==
    /\ pc = "exited" /\ err = "size"
    /\ file.size = 1000001 /\ imgLen = 1000001
    /\ Len(wire) = 1

\* C3: when upload-blob succeeded and create-record failed the run reports the
\* failure and never prints success; success is printed only in runs whose
\* create-record call was answered with status 200.
C3_NoSilentSuccess ==
    /\ \A i \in Calls("uploadBlob"), j \in Calls("createRecord") :
          (Succeeded(wire[i]) /\ wire[j].reply # "ok") =>
              /\ err \in {"status", "transport"}
              /\ Printed(FailureLine)
              /\ ~Printed(SuccessLine)
    /\ Printed(SuccessLine) =>
          /\ \E j \in Calls("createRecord") : wire[j].reply = "ok"
          /\ \A j \in Calls("createRecord") : wire[j].reply = "ok"
          /\ err = "none"

C3_Witness ==
    /\ pc = "exited"
    /\ \E i \in Calls("uploadBlob") : Succeeded(wire[i])
    /\ \E j \in Calls("createRecord") : wire[j].reply = "status"
    /\ Printed(FailureLine)

\* the shape YYYY-MM-DDTHH:MM:SS.mmmZ, carrying the fields of instant t
IsMillisTimestamp(s, t) ==
    /\ Len(s) = 24
    /\ s[5] = "-" /\ s[8] = "-" /\ s[11] = "T" /\ s[14] = ":" /\ s[17] = ":"
    /\ s[20] = "." /\ s[24] = "Z"
    /\ \A i \in (1..23) \ {5, 8, 11, 14, 17, 20} : IsDigit(s[i])
    /\ DecVal(SubSeq(s, 1, 4)) = t.year
    /\ DecVal(SubSeq(s, 6, 7)) = t.month
    /\ DecVal(SubSeq(s, 9, 10)) = t.day
    /\ DecVal(SubSeq(s, 12, 13)) = t.hour
    /\ DecVal(SubSeq(s, 15, 16)) = t.min
    /\ DecVal(SubSeq(s, 18, 19)) = t.sec
    /\ DecVal(SubSeq(s, 21, 23)) = t.nsec \div 1000000

\* C4: at every instant getCurrentTime yields a UTC timestamp of the shape
\* YYYY-MM-DDTHH:MM:SS.mmmZ with exactly three fractional digits and one Z,
\* and never fails.
C4_TimestampIsMillisUTC ==
    now # NoTime => (createdAt # PANIC /\ IsMillisTimestamp(createdAt, now))

\* offset in the content at which the piece of hashtag number i starts
RECURSIVE TagOffset(_, _, _)
TagOffset(t, tags, i) ==
    IF i = 1 THEN Len(t) ELSE TagOffset(t, tags, i - 1) + 2 + Len(tags[i - 1])

\* C5: the content is the text followed, for each hashtag in the order given,
\* by a space, a # and the tag, and by nothing else.
C5_ContentIsTextThenTags ==
    (pc \in {"auth", "createPost", "upload", "dims", "send"}
       \/ (pc = "exited" /\ err \notin {"parse", "input"})) =>
        /\ Len(content) = TagOffset(text, hashtags, Len(hashtags) + 1)
        /\ SubSeq(content, 1, Len(text)) = text
        /\ \A i \in 1..Len(hashtags) :
              LET o == TagOffset(text, hashtags, i)
              IN  /\ content[o + 1] = " "
                  /\ content[o + 2] = "#"
                  /\ SubSeq(content, o + 3, o + 2 + Len(hashtags[i])) = hashtags[i]

C5_Witness ==
    /\ pc = "auth"
    /\ text = <<"H", "e", "l", "l", "o">>
    /\ hashtags = <<<<"a">>, <<"b">>>>
    /\ content = <<"H", "e", "l", "l", "o", " ", "#", "a", " ", "#", "b">>

\* the path ends, in any letter case, with the extension e
EndsWithFold(path, e) == HasSuffix(ToLower(path), e)

\* the fixed table of the MIME types, with image/jpeg for everything else
TableType(path) ==
    IF EndsWithFold(path, <<".", "j", "p", "g">>) THEN "image/jpeg"
    ELSE IF EndsWithFold(path, <<".", "j", "p", "e", "g">>) THEN "image/jpeg"
    ELSE IF EndsWithFold(path, <<".", "p", "n", "g">>) THEN "image/png"
    ELSE IF EndsWithFold(path, <<".", "g", "i", "f">>) THEN "image/gif"
    ELSE IF EndsWithFold(path, <<".", "w", "e", "b", "p">>) THEN "image/webp"
    ELSE "image/jpeg"

\* C6: the MIME type never fails an upload: whatever the extension, a file
\* that was read and is within the limit is sent, and the Content-Type of every
\* upload-blob request is the table's type for the extension taken without
\* regard to case, image/jpeg for any other or missing extension.
C6_MimeTypeNeverFailsUpload ==
    /\ \A i \in Calls("uploadBlob") : wire[i].contentType = TableType(imageFile)
    /\ (imgLen >= 0 /\ imgLen <= 1000000) => Calls("uploadBlob") # {}

C6_Witness ==
    /\ imageFile = <<"f", ".", "b", "m", "p">>
    /\ \E i \in Calls("uploadBlob") : wire[i].contentType = "image/jpeg" /\ Succeeded(wire[i])

\* C7: the wire calls are ordered create-session, upload-blob, create-record:
\* upload-blob and create-record come only after a successful create-session,
\* create-record only after a successful upload-blob when an image path is
\* given, and upload-blob is never sent when the image path is empty.
C7_WireCallsOrdered ==
    /\ \A i \in Calls("uploadBlob") \cup Calls("createRecord") :
          \E j \in Calls("createSession") : j < i /\ Succeeded(wire[j])
    /\ \A i \in Calls("createRecord") :
          imageFile # Empty => \E j \in Calls("uploadBlob") : j < i /\ Succeeded(wire[j])
    /\ \A i \in Calls("uploadBlob") :
          /\ imageFile # Empty
          /\ \A j \in Calls("createRecord") : i < j
    /\ \A i \in Calls("createSession") : i = 1

C7_Witness ==
    /\ Len(wire) = 3
    /\ wire[1].kind = "createSession"
    /\ wire[2].kind = "uploadBlob"
    /\ wire[3].kind = "createRecord"

\* C8: each wire call is made at most once, no call follows a call that
\* failed, and once an error is reported no further call is made.
C8_NoRetryFirstErrorAborts ==
    [][/\ \A k \in {"createSession", "uploadBlob", "createRecord"} :
             Cardinality({i \in 1..Len(wire') : wire'[i].kind = k}) <= 1
       /\ \A i \in 1..(Len(wire') - 1) : Succeeded(wire'[i])
       /\ err # "none" => wire' = wire]_vars

C8_Witness ==
    /\ pc = "exited"
    /\ err = "status"
    /\ Len(wire) = 2
    /\ wire[2].kind = "uploadBlob" /\ wire[2].reply = "status"

\* C9: the exit code is non-zero only when the command line could not be
\* parsed or the form failed; a run that ends in an authentication or a
\* post-creation failure ends with exit code zero.
C9_NonZeroExitOnlyOnParseOrForm ==
    /\ (pc = "exited" /\ exitCode # 0) => err \in {"parse", "input"}
    /\ (pc = "exited" /\ Printed(FailureLine)) => exitCode = 0
    /\ (pc = "exited" /\ err = "auth") => exitCode = 0

\* C10: when the dimensions cannot be read after a successful upload the
\* create-record request is still sent with the image embed, and the embed
\* has an aspect ratio exactly when width and height read are both positive.
C10_DimensionsBestEffort ==
    /\ (dims.read /\ dims.failed) =>
          \/ pc = "send"
          \/ /\ pc = "exited"
             /\ \E i \in Calls("createRecord") :
                   /\ wire[i].record.embed.present
                   /\ ~wire[i].record.embed.aspect
    /\ \A i \in Calls("createRecord") :
          /\ wire[i].record.embed.present <=> imageFile # Empty
          /\ wire[i].record.embed.aspect <=> (dims.read /\ dims.width >= 1 /\ dims.height >= 1)
          /\ wire[i].record.embed.aspect =>
                /\ wire[i].record.embed.width = dims.width
                /\ wire[i].record.embed.height = dims.height

C10_Witness ==
    /\ dims.read /\ dims.failed
    /\ Printed(WarnDims)
    /\ \E i \in Calls("createRecord") : wire[i].record.embed.present

\* C11: a create-record request carries an image embed exactly when the image
\* path of the run is not empty; the embed's reference link is not empty, and
\* link, MIME type and size are those of the blob in the reply to the run's
\* upload-blob request; a reply without a reference link ends the run with an
\* error and no create-record request.
C11_EmbedIsUploadedBlob ==
    /\ \A i \in Calls("createRecord") :
          LET e == wire[i].record.embed
          IN  /\ e.present <=> imageFile # Empty
              /\ e.present =>
                    /\ e.link # ""
                    /\ \E j \in Calls("uploadBlob") :
                          /\ j < i
                          /\ wire[j].reply = "decoded"
                          /\ e.link = wire[j].blob.link
                          /\ e.mimeType = wire[j].blob.mimeType
                          /\ e.size = wire[j].blob.size
              /\ ~e.present => (e.link = "" /\ Calls("uploadBlob") = {})
    /\ \A j \in Calls("uploadBlob") :
          (wire[j].reply = "decoded" /\ wire[j].blob.link = "") =>
              /\ Calls("createRecord") = {}
              /\ pc = "exited"
              /\ err = "nolink"
              /\ Printed(FailureLine)

C11_Witness ==
    /\ imgLen = 999999
    /\ \E j \in Calls("uploadBlob"), i \in Calls("createRecord") :
          /\ wire[j].contentType = "image/png"
          /\ wire[j].blob = [link |-> "bafy", mimeType |-> "", size |-> 0]
          /\ wire[i].record.embed.present
          /\ wire[i].record.embed.link = "bafy"
          /\ wire[i].record.embed.mimeType = ""
          /\ wire[i].record.embed.size = 0

====
